---- MODULE Spec2Model ----
(***************************************************************************)
(* RySimpleRangeTester<T>: the test-item store (m_testItems), the callback *)
(* slot (m_testCallback), the result log (m_results) and the operations of *)
(* the public interface, translated from src/RySimpleRangeTester.h; and   *)
(* the RyTest registry (m_tests) with its filter, translated from          *)
(* ry_test.h.                                                              *)
(***************************************************************************)
EXTENDS Integers, Sequences, FiniteSets, TLC

(***************************************************************************)
(* Bounds of the model.                                                    *)
(***************************************************************************)
MaxItems == 2        \* add is enabled only while the store holds fewer entries
MaxDuration == 0     \* a test's measured duration is 0..MaxDuration ms
MaxReportDuration == 2   \* the same, where the report is explored
MaxTests == 2        \* addTest is enabled only while fewer tests are registered

(***************************************************************************)
(* Inputs.                                                                 *)
(***************************************************************************)
Values == {-1, 1}                  \* the values of type T
ExplicitNames == {"a", "Test_2"}   \* non-empty names a caller passes
NameArgs == ExplicitNames \cup {""}
Descriptions == {"", "d"}
Durations == 0 .. MaxDuration
ItemPreds == {"negative", "flagged"}   \* predicates over TestItem
EmptyCallable == "empty"               \* a default-constructed std::function
Callbacks == {"positive", "throwsOnNegative", "throwsIntOnNegative"}
RunNames == {"a", "b"}             \* the names used where run() is explored
Prefixes == {"Test", "num"}        \* base names of generateUniqueName
ContainerNames == {"", "a", "num_2"}   \* names used where containers are added
ValueContainers == UNION {[1 .. n -> Values] : n \in 0 .. MaxItems}
ContainerItems == {[item |-> 1, name |-> "a", description |-> "",
                    expectedToFail |-> FALSE],
                   [item |-> -1, name |-> "", description |-> "",
                    expectedToFail |-> TRUE]}
ItemContainers == UNION {[1 .. n -> ContainerItems] : n \in 0 .. MaxItems}
ReportNames == {"a", "b", "c"}     \* names used where the report is explored
ReportDurations == 0 .. MaxReportDuration

\* Inputs of the registry.  Its strings are sequences of characters.
currentTestSuite == <<"S">>            \* RY_TEST_SUITE(S)
CaseNames == {<<"a">>, <<"b">>}
TestFuncs == {"passes", "throws"}      \* what the body of a test does
NullFunc == "nullptr"                  \* an empty std::function
NullPtr == "NULL"                      \* std::getenv of an unset variable
NullOpt == "nullopt"                   \* an empty std::optional
DisabledEnvs == {NullPtr, <<"S", ".", "a">>,
                 <<"S", ".", "a", ",", "S", ".", "b">>}   \* RYTEST_DISABLED_TESTS
FilterEnvs == {NullPtr, <<"S", ".", "a">>, <<"S", ".", "*">>}   \* RYTEST_FILTER

VARIABLES m_testItems, m_testCallback, m_results, last,
          m_tests, m_disabledTests, m_filterPattern, stats

\* The state of the RyTest registry and of its filter, and the statistics
\* of the latest runAllTests.
registryVars == <<m_tests, m_disabledTests, m_filterPattern, stats>>

vars == <<m_testItems, m_testCallback, m_results, last, registryVars>>

(***************************************************************************)
(* Data types.                                                             *)
(***************************************************************************)
TestItem(value, itemName, desc, expectFail) ==
    [item |-> value, name |-> itemName, description |-> desc,
     expectedToFail |-> expectFail]

TestResult(name, success, error, duration, wasExpectedToFail, description) ==
    [name |-> name, success |-> success, error |-> error,
     duration |-> duration, wasExpectedToFail |-> wasExpectedToFail,
     description |-> description]

\* RyTest::TestCase and RyTest::TestStatistics (totalTime left out).
TestCase(suiteName, caseName, testFunc, validateFunc, status, skipReason) ==
    [suiteName |-> suiteName, caseName |-> caseName, testFunc |-> testFunc,
     validateFunc |-> validateFunc, status |-> status,
     skipReason |-> skipReason]

TestStatistics(total, passed, failed, skipped) ==
    [total |-> total, passed |-> passed, failed |-> failed,
     skipped |-> skipped]

\* What one invocation of the callback does: it returns a bool, throws an
\* exception derived from std::exception, or throws something else.
Returns(b) == [kind |-> "returns", value |-> b, what |-> ""]
ThrowsException(msg) == [kind |-> "exception", value |-> FALSE, what |-> msg]
ThrowsOther == [kind |-> "other", value |-> FALSE, what |-> ""]

\* m_testCallback(item) for the callables of the model.
Invoke(callback, item) ==
    CASE callback = "positive" -> Returns(item > 0)
      [] callback = "throwsOnNegative" ->
            IF item < 0 THEN ThrowsException("boom") ELSE Returns(TRUE)
      [] callback = "throwsIntOnNegative" ->
            IF item < 0 THEN ThrowsOther ELSE Returns(TRUE)

\* The predicates handed to removeIf / expectIf.
PredHolds(pred, testItem) ==
    CASE pred = "negative" -> testItem.item < 0
      [] pred = "flagged" -> testItem.expectedToFail

(***************************************************************************)
(* std::unordered_map<std::string, TestItem> as a set of (first, second)   *)
(* pairs.                                                                  *)
(***************************************************************************)
Keys(map) == {e.first : e \in map}

contains(map, key) == \E e \in map : e.first = key

find(map, key) == CHOOSE e \in map : e.first = key

\* Mutant: insert_or_assign instead of try_emplace.
insert_or_assign(map, key, testItem) ==
    {e \in map : e.first # key} \cup {[first |-> key, second |-> testItem]}

try_emplace(map, key, testItem) ==
    IF contains(map, key) THEN map
    ELSE map \cup {[first |-> key, second |-> testItem]}

erase(map, key) == {e \in map : e.first # key}

\* The orders in which a range-for may visit the map: unspecified.
IterationOrders(map) ==
    {s \in [1 .. Cardinality(map) -> map] :
        \A i, j \in 1 .. Cardinality(map) : i # j => s[i] # s[j]}

(***************************************************************************)
(* generateUniqueName                                                      *)
(***************************************************************************)
Format(baseName, counter) == baseName \o "_" \o ToString(counter)

\* The names the do-while loop formats, in order; the last one is returned.
RECURSIVE generateUniqueNameLoop(_, _, _, _)
generateUniqueNameLoop(map, baseName, counter, tried) ==
    LET name == Format(baseName, counter)
    IN  IF contains(map, name)
        THEN generateUniqueNameLoop(map, baseName, counter + 1, Append(tried, name))
        ELSE Append(tried, name)

generateUniqueNameTried(map, baseName) ==
    generateUniqueNameLoop(map, baseName, Cardinality(map) + 1, <<>>)

\* Mutant: the first candidate is returned without the contains() loop.
generateUniqueNameNoLoop(map, baseName) ==
    Format(baseName, Cardinality(map) + 1)

generateUniqueName(map, baseName) ==
    LET tried == generateUniqueNameTried(map, baseName) IN tried[Len(tried)]

(***************************************************************************)
(* The record of the last call: its arguments and how it ended.            *)
(***************************************************************************)
Call(op, arg, status, value, what, visited, events) ==
    [op |-> op, arg |-> arg, status |-> status, value |-> value,
     what |-> what, visited |-> visited, events |-> events]

\* The names generateUniqueName formatted during an add with this name.
Generated(map, name) ==
    IF name = "" THEN generateUniqueNameTried(map, "Test") ELSE <<>>

Init ==
    /\ m_testItems = {}
    /\ m_testCallback = EmptyCallable
    /\ m_results = <<>>
    /\ last = Call("ctor", "", "returned", FALSE, "", <<>>, <<>>)
    /\ m_tests = <<>>
    /\ m_disabledTests = {}
    /\ m_filterPattern = NullOpt
    /\ stats = TestStatistics(0, 0, 0, 0)

(***************************************************************************)
(* add(const T&, name, description)                                        *)
(***************************************************************************)
\* Mutant: the entry keeps the name argument, not the effective name.
addStoresGivenName(item, name, description) ==
    LET effectiveName == IF name = "" THEN generateUniqueName(m_testItems, "Test")
                         ELSE name
    IN  /\ Cardinality(m_testItems) < MaxItems \/ contains(m_testItems, name)
        /\ m_testItems' = try_emplace(m_testItems, effectiveName,
                             TestItem(item, name, description, FALSE))
        /\ last' = Call("add", name, "returned", FALSE, "",
                        Generated(m_testItems, name), <<>>)
        /\ UNCHANGED <<m_testCallback, m_results, registryVars>>

add(item, name, description) ==
    LET effectiveName == IF name = "" THEN generateUniqueName(m_testItems, "Test")
                         ELSE name
    IN  /\ Cardinality(m_testItems) < MaxItems \/ contains(m_testItems, name)
        /\ m_testItems' = try_emplace(m_testItems, effectiveName,
                             TestItem(item, effectiveName, description, FALSE))
        /\ last' = Call("add", name, "returned", FALSE, "",
                        Generated(m_testItems, name), <<>>)
        /\ UNCHANGED <<m_testCallback, m_results, registryVars>>

(***************************************************************************)
(* add(TestItem)                                                           *)
(***************************************************************************)
addItem(testItem) ==
    LET named == IF testItem.name = ""
                 THEN [testItem EXCEPT !.name = generateUniqueName(m_testItems, "Test")]
                 ELSE testItem
    IN  /\ Cardinality(m_testItems) < MaxItems \/ contains(m_testItems, testItem.name)
        /\ m_testItems' = try_emplace(m_testItems, named.name, named)
        /\ last' = Call("addItem", testItem.name, "returned", FALSE, "",
                        Generated(m_testItems, testItem.name), <<>>)
        /\ UNCHANGED <<m_testCallback, m_results, registryVars>>

(***************************************************************************)
(* remove(name)                                                            *)
(***************************************************************************)
remove(name) ==
    /\ m_testItems' = erase(m_testItems, name)
    /\ last' = Call("remove", name, "returned", FALSE, "", <<>>, <<>>)
    /\ UNCHANGED <<m_testCallback, m_results, registryVars>>

(***************************************************************************)
(* forEach(callback)                                                       *)
(***************************************************************************)
forEach(callback) ==
    /\ m_testCallback' = callback
    /\ last' = Call("forEach", callback, "returned", FALSE, "", <<>>, <<>>)
    /\ UNCHANGED <<m_testItems, m_results, registryVars>>

(***************************************************************************)
(* expect(name)                                                            *)
(***************************************************************************)
expect(name) ==
    /\ m_testItems' =
          IF contains(m_testItems, name)
          THEN {IF e.first = name
                THEN [e EXCEPT !.second.expectedToFail = TRUE] ELSE e :
                e \in m_testItems}
          ELSE m_testItems
    /\ last' = Call("expect", name, "returned", FALSE, "", <<>>, <<>>)
    /\ UNCHANGED <<m_testCallback, m_results, registryVars>>

(***************************************************************************)
(* clear(); visited lists the Results the log held when it was cleared.    *)
(***************************************************************************)
\* Mutant: m_results.clear() is missing.
clearStoreOnly ==
    /\ m_testItems' = {}
    /\ last' = Call("clear", "", "returned", FALSE, "",
                    [i \in 1 .. Len(m_results) |-> m_results[i].name], <<>>)
    /\ UNCHANGED <<m_testCallback, m_results, registryVars>>

clear ==
    /\ m_testItems' = {}
    /\ m_results' = <<>>
    /\ last' = Call("clear", "", "returned", FALSE, "",
                    [i \in 1 .. Len(m_results) |-> m_results[i].name], <<>>)
    /\ UNCHANGED <<m_testCallback, registryVars>>

(***************************************************************************)
(* removeIf(pred): std::erase_if over the map, in some iteration order.    *)
(***************************************************************************)
\* Mutant: the predicate's sense is inverted.
erase_if_not(map, order, i, pred, visited) ==
    [map |-> {e \in map : PredHolds(pred, e.second)},
     visited |-> [j \in 1 .. Len(order) |-> order[j].first]]

RECURSIVE erase_if(_, _, _, _, _)
erase_if(map, order, i, pred, visited) ==
    IF i > Len(order) THEN [map |-> map, visited |-> visited]
    ELSE erase_if(IF PredHolds(pred, order[i].second)
                  THEN erase(map, order[i].first) ELSE map,
                  order, i + 1, pred, Append(visited, order[i].first))

removeIf(pred) ==
    \E order \in IterationOrders(m_testItems) :
        LET r == erase_if(m_testItems, order, 1, pred, <<>>)
        IN  /\ m_testItems' = r.map
            /\ last' = Call("removeIf", pred, "returned", FALSE, "", r.visited, <<>>)
            /\ UNCHANGED <<m_testCallback, m_results, registryVars>>

(***************************************************************************)
(* expectIf(pred): the range-for over the map.                             *)
(***************************************************************************)
RECURSIVE expectIfLoop(_, _, _, _, _)
expectIfLoop(map, order, i, pred, visited) ==
    IF i > Len(order) THEN [map |-> map, visited |-> visited]
    ELSE expectIfLoop(IF PredHolds(pred, order[i].second)
                      THEN (map \ {order[i]}) \cup
                           {[order[i] EXCEPT !.second.expectedToFail = TRUE]}
                      ELSE map,
                      order, i + 1, pred, Append(visited, order[i].first))

expectIf(pred) ==
    \E order \in IterationOrders(m_testItems) :
        LET r == expectIfLoop(m_testItems, order, 1, pred, <<>>)
        IN  /\ m_testItems' = r.map
            /\ last' = Call("expectIf", pred, "returned", FALSE, "", r.visited, <<>>)
            /\ UNCHANGED <<m_testCallback, m_results, registryVars>>

(***************************************************************************)
(* getPassedCount / getFailedCount / getPassRate                           *)
(***************************************************************************)
getPassedCount(results) ==
    Cardinality({i \in 1 .. Len(results) : results[i].success})

getFailedCount(results) == Len(results) - getPassedCount(results)

\* The rate is the rational num / den (percent); 0.0 is 0 / 1.
\* Mutant: the rate is taken over the store, 0 when the store is empty.
getPassRateOverStore(results) ==
    IF m_testItems = {} THEN [num |-> 0, den |-> 1]
    ELSE [num |-> getPassedCount(results) * 100, den |-> Cardinality(m_testItems)]

getPassRate(results) ==
    IF Len(results) = 0 THEN [num |-> 0, den |-> 1]
    ELSE [num |-> getPassedCount(results) * 100, den |-> Len(results)]

(***************************************************************************)
(* runTests: the loop over the map, then the report.                       *)
(***************************************************************************)
Event(ev, name) == [ev |-> ev, name |-> name]

\* One pass of the loop body for the entry (name, testItem), the callback
\* having done outcome: the TestResult pushed to m_results.
\* Mutant: the expectedToFail inversion is missing.
runOneNoInversion(name, testItem, outcome, duration) ==
    LET success == outcome.kind = "returns" /\ outcome.value
        error == IF outcome.kind = "returns"
                 THEN (IF ~success
                       THEN (IF testItem.expectedToFail
                             THEN "Test unexpectedly passed" ELSE "Test failed")
                       ELSE "")
                 ELSE outcome.what
    IN  TestResult(name, success, error, duration, testItem.expectedToFail,
                   testItem.description)

\* Mutant: the inversion is applied after the catch block as well.
runOneInvertsFault(name, testItem, outcome, duration) ==
    LET raw == outcome.kind = "returns" /\ outcome.value
        success == IF testItem.expectedToFail THEN ~raw ELSE raw
        error == IF outcome.kind = "returns"
                 THEN (IF ~success
                       THEN (IF testItem.expectedToFail
                             THEN "Test unexpectedly passed" ELSE "Test failed")
                       ELSE "")
                 ELSE outcome.what
    IN  TestResult(name, success, error, duration, testItem.expectedToFail,
                   testItem.description)

runOne(name, testItem, outcome, duration) ==
    LET success == IF outcome.kind = "returns"
                   THEN (IF testItem.expectedToFail THEN ~outcome.value
                         ELSE outcome.value)
                   ELSE FALSE
        error == IF outcome.kind = "returns"
                 THEN (IF ~success
                       THEN (IF testItem.expectedToFail
                             THEN "Test unexpectedly passed" ELSE "Test failed")
                       ELSE "")
                 ELSE outcome.what
    IN  TestResult(name, success, error, duration, testItem.expectedToFail,
                   testItem.description)

RECURSIVE runLoop(_, _, _, _, _, _)
runLoop(callback, order, durations, i, results, events) ==
    IF i > Len(order)
    THEN [results |-> results, status |-> "returned",
          events |-> Append(events, Event("REPORT", ""))]
    ELSE LET name == order[i].first
             testItem == order[i].second
             outcome == Invoke(callback, testItem.item)
             called == events \o <<Event("RUN", name), Event("CALL", name)>>
         IN  IF outcome.kind = "other"
             THEN \* not a std::exception: leaves the loop and runTests
                  [results |-> results, status |-> "unknown_exception",
                   events |-> called]
             ELSE LET result == runOne(name, testItem, outcome, durations[i])
                  IN  runLoop(callback, order, durations, i + 1,
                              Append(results, result),
                              Append(called,
                                     Event(IF result.success THEN "OK" ELSE "FAILED",
                                           name)))

runTests(callback, order, durations) ==
    runLoop(callback, order, durations, 1, <<>>, <<Event("BANNER", "")>>)

Names(events, ev) ==
    LET idx == {i \in 1 .. Len(events) : events[i].ev = ev}
    IN  [i \in 1 .. Cardinality(idx) |->
            events[CHOOSE j \in idx : Cardinality({k \in idx : k < j}) = i - 1].name]

(***************************************************************************)
(* printTestReport: the performance-analysis block, from m_results.        *)
(***************************************************************************)
\* std::accumulate of the durations (totalTestTime).
RECURSIVE totalTestTime(_)
totalTestTime(results) ==
    IF results = <<>> THEN 0
    ELSE results[1].duration + totalTestTime(Tail(results))

\* Mutant: the maximum is only replaced by a strictly greater element.
RECURSIVE minmax_element_first(_, _, _, _)
minmax_element_first(results, i, minIt, maxIt) ==
    IF i > Len(results) THEN [first |-> minIt, second |-> maxIt]
    ELSE minmax_element_first(results, i + 1,
            IF results[i].duration < results[minIt].duration THEN i ELSE minIt,
            IF results[maxIt].duration < results[i].duration THEN i ELSE maxIt)

\* std::minmax_element with comp(a, b) = a.duration < b.duration, as indexes
\* into results: the first smallest element and the last largest element.
RECURSIVE minmax_element(_, _, _, _)
minmax_element(results, i, minIt, maxIt) ==
    IF i > Len(results) THEN [first |-> minIt, second |-> maxIt]
    ELSE minmax_element(results, i + 1,
            IF results[i].duration < results[minIt].duration THEN i ELSE minIt,
            IF ~(results[i].duration < results[maxIt].duration) THEN i ELSE maxIt)

\* The Results printed as "Slowest Test" and "Fastest Test".
slowestTest(results) == results[minmax_element(results, 1, 1, 1).second]

fastestTest(results) == results[minmax_element(results, 1, 1, 1).first]

\* totalTestTime.count() / m_results.size(): integer division.
avgTime(results) == totalTestTime(results) \div Len(results)

\* Mutant: the threshold is 1.5 times the exact mean.
slowTestsExactMean(results) ==
    SelectSeq(results,
              LAMBDA r : 2 * Len(results) * r.duration > 3 * totalTestTime(results))

\* The Results listed under "Tests Significantly Above Average": those with
\* duration > static_cast<long long>(avgTime * 1.5).
slowTests(results) ==
    SelectSeq(results, LAMBDA r : r.duration > (avgTime(results) * 3) \div 2)

(***************************************************************************)
(* run()                                                                   *)
(***************************************************************************)
\* Mutant: m_results.clear() comes before the callback check.
runNoCallbackClearsFirst ==
    /\ m_testCallback = EmptyCallable
    /\ m_results' = <<>>
    /\ last' = Call("run", "", "runtime_error", FALSE,
                    "Test callback not set", <<>>, <<>>)
    /\ UNCHANGED <<m_testItems, m_testCallback, registryVars>>

\* run() with no callback set: runTests throws before it touches anything.
runNoCallback ==
    /\ m_testCallback = EmptyCallable
    /\ last' = Call("run", "", "runtime_error", FALSE,
                    "Test callback not set", <<>>, <<>>)
    /\ UNCHANGED <<m_testItems, m_testCallback, m_results, registryVars>>

\* Mutant: run() reports whether any test passed.
runReturnAnyPassed(results, items) == getPassedCount(results) > 0

\* What run() returns once runTests has returned.
runReturn(results, items) == getPassedCount(results) = Cardinality(items)

\* run() with a callback set, the clock giving durations of clockReadings.
runTimed(clockReadings) ==
    /\ m_testCallback # EmptyCallable
    /\ \E order \in IterationOrders(m_testItems) :
       \E durations \in [1 .. Len(order) -> clockReadings] :
          LET r == runTests(m_testCallback, order, durations)
          IN  /\ m_results' = r.results
              /\ last' = Call("run", "", r.status,
                              r.status = "returned" /\
                                 runReturn(r.results, m_testItems),
                              "", Names(r.events, "CALL"), r.events)
              /\ UNCHANGED <<m_testItems, m_testCallback, registryVars>>

runWithCallback == runTimed(Durations)

run == runNoCallback \/ runWithCallback

(***************************************************************************)
(* add(const Container<U>&, namePrefix) and add(std::initializer_list<T>,  *)
(* namePrefix): one add per element.                                       *)
(***************************************************************************)
\* The store after add(item, name, description) / add(testItem).
addValue(map, item, name, description) ==
    LET effectiveName == IF name = "" THEN generateUniqueName(map, "Test")
                         ELSE name
    IN  try_emplace(map, effectiveName,
                    TestItem(item, effectiveName, description, FALSE))

addTestItem(map, testItem) ==
    LET named == IF testItem.name = ""
                 THEN [testItem EXCEPT !.name = generateUniqueName(map, "Test")]
                 ELSE testItem
    IN  try_emplace(map, named.name, named)

\* Mutant: the name is generated once, before the loop.
addValuesStaleName(map, items, i, namePrefix, passed) ==
    LET name == generateUniqueName(map, namePrefix)
    IN  [map |-> IF Len(items) = 0 THEN map
                 ELSE addValue(map, items[1], name, ""),
         passed |-> [j \in 1 .. Len(items) |-> name]]

\* The loop over a container of T: add(item, generateUniqueName(namePrefix)).
\* passed lists the names handed to add, element by element.
RECURSIVE addValues(_, _, _, _, _)
addValues(map, items, i, namePrefix, passed) ==
    IF i > Len(items) THEN [map |-> map, passed |-> passed]
    ELSE LET name == generateUniqueName(map, namePrefix)
         IN  addValues(addValue(map, items[i], name, ""), items, i + 1,
                       namePrefix, Append(passed, name))

\* The loop over a container of TestItem: add(item), the prefix unused.
RECURSIVE addTestItems(_, _, _, _, _)
addTestItems(map, items, i, namePrefix, passed) ==
    IF i > Len(items) THEN [map |-> map, passed |-> passed]
    ELSE addTestItems(addTestItem(map, items[i]), items, i + 1, namePrefix,
                      Append(passed, items[i].name))

\* events lists the elements of the argument, one event each.
addContainer(items, namePrefix) ==
    LET r == addValues(m_testItems, items, 1, namePrefix, <<>>)
    IN  /\ Cardinality(m_testItems) + Len(items) <= MaxItems
        /\ m_testItems' = r.map
        /\ last' = Call("addContainer", namePrefix, "returned", FALSE, "",
                        r.passed, [i \in 1 .. Len(items) |-> Event("ELEM", "")])
        /\ UNCHANGED <<m_testCallback, m_results, registryVars>>

addItemContainer(items, namePrefix) ==
    LET r == addTestItems(m_testItems, items, 1, namePrefix, <<>>)
    IN  /\ Cardinality(m_testItems) + Len(items) <= MaxItems
        /\ m_testItems' = r.map
        /\ last' = Call("addItemContainer", namePrefix, "returned", FALSE, "",
                        r.passed,
                        [i \in 1 .. Len(items) |-> Event("ELEM", items[i].name)])
        /\ UNCHANGED <<m_testCallback, m_results, registryVars>>

addInitializerList(items, namePrefix) ==
    LET r == addValues(m_testItems, items, 1, namePrefix, <<>>)
    IN  /\ Cardinality(m_testItems) + Len(items) <= MaxItems
        /\ m_testItems' = r.map
        /\ last' = Call("addInitializerList", namePrefix, "returned", FALSE, "",
                        r.passed, [i \in 1 .. Len(items) |-> Event("ELEM", "")])
        /\ UNCHANGED <<m_testCallback, m_results, registryVars>>

(***************************************************************************)
(* The registration macros of ry_test.h; body is what the test function    *)
(* does when it is called.                                                 *)
(***************************************************************************)
RY_TEST_STATUS(name, body, status, reason) ==
    TestCase(currentTestSuite, name, body, NullFunc, status, reason)

RY_TEST(name, body) == RY_TEST_STATUS(name, body, "Enabled", "")

RY_DISABLED_TEST(name, body) == RY_TEST_STATUS(name, body, "Disabled", "")

RY_SKIP_TEST(name, body, reason) == RY_TEST_STATUS(name, body, "Skip", reason)

RY_TEST_WITH_VALIDATE(name, body, validateFunc) ==
    TestCase(currentTestSuite, name, body, validateFunc, "Enabled", "")

\* The test cases a translation unit registers.
TestCases ==
    {RY_TEST(name, body) : name \in CaseNames, body \in TestFuncs}
    \cup {RY_DISABLED_TEST(name, "passes") : name \in CaseNames}
    \cup {RY_SKIP_TEST(name, "passes", "r") : name \in CaseNames}
    \cup {RY_TEST_WITH_VALIDATE(name, "passes", "invalid") : name \in CaseNames}

(***************************************************************************)
(* TestFilter                                                              *)
(***************************************************************************)
\* The while (std::getline(ss, test, ',')) loop: the tokens inserted.
RECURSIVE getlineLoop(_, _)
getlineLoop(ss, disabledTests) ==
    IF ss = <<>> THEN disabledTests
    ELSE LET commas == {i \in 1 .. Len(ss) : ss[i] = ","}
         IN  IF commas = {} THEN disabledTests \cup {ss}
             ELSE LET k == CHOOSE i \in commas : \A j \in commas : i <= j
                  IN  getlineLoop(SubSeq(ss, k + 1, Len(ss)),
                                  disabledTests \cup {SubSeq(ss, 1, k - 1)})

\* initializeFromEnv: the filter's two members afterwards.
initializeFromEnv(disabledTests, filterPattern, disabled, pattern) ==
    [m_disabledTests |-> IF disabled = NullPtr THEN disabledTests
                         ELSE getlineLoop(disabled, disabledTests),
     m_filterPattern |-> IF pattern = NullPtr THEN filterPattern ELSE pattern]

\* '*' becomes '.', then std::regex_match; for patterns made of letters,
\* '.' and '*' the regex matches the names of its own length that agree
\* with it wherever it has a letter.
matchesPattern(testName, pattern) ==
    LET regexPattern == [i \in 1 .. Len(pattern) |->
                            IF pattern[i] = "*" THEN "." ELSE pattern[i]]
    IN  /\ Len(testName) = Len(regexPattern)
        /\ \A i \in 1 .. Len(regexPattern) :
              regexPattern[i] = "." \/ regexPattern[i] = testName[i]

shouldRun(fullTestName, disabledTests, filterPattern) ==
    IF fullTestName \in disabledTests THEN FALSE
    ELSE IF filterPattern # NullOpt /\ ~matchesPattern(fullTestName, filterPattern)
         THEN FALSE
         ELSE TRUE

(***************************************************************************)
(* TestRegistry                                                            *)
(***************************************************************************)
\* std::format("{}.{}", test.suiteName, test.caseName)
fullName(test) == test.suiteName \o <<".">> \o test.caseName

\* Registration happens in the static initialisers the macros define, that
\* is before main calls runAllTests.
addTest(test) ==
    /\ last.op # "runAllTests"
    /\ Len(m_tests) < MaxTests
    /\ m_tests' = Append(m_tests, test)
    /\ last' = Call("addTest", test.caseName, "returned", FALSE, "", <<>>, <<>>)
    /\ UNCHANGED <<m_testItems, m_testCallback, m_results,
                   m_disabledTests, m_filterPattern, stats>>

\* The first loop of runAllTests: stats.total.
countTotal(tests, disabledTests, filterPattern) ==
    Cardinality({i \in 1 .. Len(tests) :
                    /\ tests[i].status # "Disabled"
                    /\ shouldRun(fullName(tests[i]), disabledTests, filterPattern)})

\* The second loop of runAllTests from test i on.  invoked lists the indexes
\* of the tests whose testFunc was called, events the lines printed.
RECURSIVE runAllTestsLoop(_, _, _, _, _, _, _)
runAllTestsLoop(tests, disabledTests, filterPattern, i, st, invoked, events) ==
    IF i > Len(tests)
    THEN [stats |-> st, invoked |-> invoked, events |-> events]
    ELSE LET test == tests[i]
             name == fullName(test)
         IN  IF test.status = "Disabled"
                \/ ~shouldRun(name, disabledTests, filterPattern)
             THEN IF test.status = "Skip"
                  THEN runAllTestsLoop(tests, disabledTests, filterPattern, i + 1,
                          [st EXCEPT !.skipped = @ + 1], invoked,
                          Append(events, Event("SKIPPED", name)))
                  ELSE runAllTestsLoop(tests, disabledTests, filterPattern, i + 1,
                          st, invoked, events)
             ELSE LET validationFailed == /\ test.validateFunc # NullFunc
                                          /\ test.validateFunc = "invalid"
                      success == ~validationFailed /\ test.testFunc = "passes"
                  IN  runAllTestsLoop(tests, disabledTests, filterPattern, i + 1,
                          IF success THEN [st EXCEPT !.passed = @ + 1]
                          ELSE [st EXCEPT !.failed = @ + 1],
                          IF validationFailed THEN invoked ELSE Append(invoked, i),
                          events \o <<Event("RUN", name),
                                      Event(IF success THEN "OK" ELSE "FAILED",
                                            name)>>)

\* runAllTests with the environment variables RYTEST_DISABLED_TESTS =
\* disabled and RYTEST_FILTER = pattern; it returns 1 when a test failed.
runAllTests(disabled, pattern) ==
    LET filter == initializeFromEnv(m_disabledTests, m_filterPattern,
                                    disabled, pattern)
        total == countTotal(m_tests, filter.m_disabledTests, filter.m_filterPattern)
        r == runAllTestsLoop(m_tests, filter.m_disabledTests,
                             filter.m_filterPattern, 1,
                             TestStatistics(total, 0, 0, 0), <<>>,
                             <<Event("BANNER", "")>>)
    IN  /\ m_disabledTests' = filter.m_disabledTests
        /\ m_filterPattern' = filter.m_filterPattern
        /\ stats' = r.stats
        /\ last' = Call("runAllTests", "", "returned",
                        IF r.stats.failed > 0 THEN 1 ELSE 0, "",
                        r.invoked, Append(r.events, Event("SUMMARY", "")))
        /\ UNCHANGED <<m_testItems, m_testCallback, m_results, m_tests>>

(***************************************************************************)
(* Spec: the store operations, with generated and colliding names.         *)
(***************************************************************************)
Next ==
    \/ \E item \in Values, name \in NameArgs, description \in Descriptions :
          add(item, name, description)
    \/ \E item \in Values, name \in NameArgs, description \in Descriptions,
          expectFail \in BOOLEAN :
          addItem(TestItem(item, name, description, expectFail))
    \/ \E name \in ExplicitNames : remove(name)
    \/ \E pred \in ItemPreds : removeIf(pred)
    \/ \E name \in ExplicitNames : expect(name)
    \/ \E pred \in ItemPreds : expectIf(pred)
    \/ clear

Spec == Init /\ [][Next]_vars

(***************************************************************************)
(* RunSpec: every operation, run() included, over the names RunNames.      *)
(***************************************************************************)
RunNext ==
    \/ \E item \in Values, name \in RunNames : add(item, name, "")
    \/ \E item \in Values, name \in RunNames, expectFail \in BOOLEAN :
          addItem(TestItem(item, name, "", expectFail))
    \/ \E name \in RunNames : remove(name)
    \/ \E pred \in ItemPreds : removeIf(pred)
    \/ \E callback \in Callbacks \cup {EmptyCallable} : forEach(callback)
    \/ \E name \in RunNames : expect(name)
    \/ \E pred \in ItemPreds : expectIf(pred)
    \/ clear
    \/ run

RunSpec == Init /\ [][RunNext]_vars

(***************************************************************************)
(* ContainerSpec: the store operations with every overload of add.         *)
(***************************************************************************)
ContainerNext ==
    \/ \E item \in Values, name \in ContainerNames : add(item, name, "")
    \/ \E item \in Values, name \in ContainerNames, expectFail \in BOOLEAN :
          addItem(TestItem(item, name, "", expectFail))
    \/ \E items \in ValueContainers, namePrefix \in Prefixes :
          addContainer(items, namePrefix)
    \/ \E items \in ItemContainers, namePrefix \in Prefixes :
          addItemContainer(items, namePrefix)
    \/ \E items \in ValueContainers, namePrefix \in Prefixes :
          addInitializerList(items, namePrefix)
    \/ \E name \in ContainerNames \ {""} : remove(name)
    \/ \E pred \in ItemPreds : removeIf(pred)
    \/ \E name \in ContainerNames \ {""} : expect(name)
    \/ \E pred \in ItemPreds : expectIf(pred)
    \/ clear

ContainerSpec == Init /\ [][ContainerNext]_vars

(***************************************************************************)
(* ReportSpec: runs whose Results differ in duration.                      *)
(***************************************************************************)
ReportNext ==
    \/ \E name \in ReportNames : add(1, name, "")
    \/ \E name \in ReportNames : remove(name)
    \/ forEach("positive")
    \/ runNoCallback
    \/ runTimed(ReportDurations)

ReportSpec == Init /\ [][ReportNext]_vars

(***************************************************************************)
(* RegistrySpec: tests are registered, then runAllTests runs them.         *)
(***************************************************************************)
RegistryNext ==
    \/ \E test \in TestCases : addTest(test)
    \/ \E disabled \in DisabledEnvs, pattern \in FilterEnvs :
          runAllTests(disabled, pattern)

RegistrySpec == Init /\ [][RegistryNext]_vars

(***************************************************************************)
(* Properties of the store (checked under Spec).                           *)
(***************************************************************************)

\* C1: an add under an explicit non-empty name that is already a key leaves
\* the store exactly as it was (the entry's value, description and flag, and
\* the size), and the store never holds two entries with the same name.
C1_InsertIfAbsent ==
    /\ [](\A e1, e2 \in m_testItems : e1.first = e2.first => e1 = e2)
    /\ [][(/\ last'.op \in {"add", "addItem"}
           /\ last'.arg # ""
           /\ contains(m_testItems, last'.arg))
          => m_testItems' = m_testItems]_vars

\* add("a") always creates an unflagged entry: a flagged "a" with another
\* description right after add("a") is the entry that was there before.
C1_Witness ==
    /\ last.op = "add"
    /\ last.arg = "a"
    /\ \E e \in m_testItems :
          e.first = "a" /\ e.second.expectedToFail /\ e.second.description = "d"

\* C2: the name generateUniqueName returns is not a key of the store, for
\* every base name and every reachable store; an add with an empty name
\* inserts one new entry, under the generated name.
C2_GeneratedNameIsFresh ==
    /\ [](\A baseName \in Prefixes :
            ~contains(m_testItems, generateUniqueName(m_testItems, baseName)))
    /\ [][(last'.op \in {"add", "addItem"} /\ last'.arg = "")
          => /\ Cardinality(m_testItems') = Cardinality(m_testItems) + 1
             /\ m_testItems \subseteq m_testItems'
             /\ \E e \in m_testItems' \ m_testItems :
                   /\ e.first = last'.visited[Len(last'.visited)]
                   /\ ~contains(m_testItems, e.first)]_vars

\* The first candidate collided with a key and the loop went on to the next.
C2_Witness ==
    /\ last.op = "add"
    /\ last.arg = ""
    /\ Len(last.visited) = 2
    /\ contains(m_testItems, last.visited[1])
    /\ contains(m_testItems, last.visited[2])

\* C10: removeIf(pred) removes exactly the entries whose item satisfies pred
\* and expectIf(pred) flags exactly those entries, every other entry and
\* field staying as it was; each applies pred once to every entry.
C10_RemoveIfExpectIf ==
    [][/\ last'.op = "removeIf"
          => m_testItems' = {e \in m_testItems : ~PredHolds(last'.arg, e.second)}
       /\ last'.op = "expectIf"
          => m_testItems' =
                {IF PredHolds(last'.arg, e.second)
                 THEN [e EXCEPT !.second.expectedToFail = TRUE] ELSE e :
                 e \in m_testItems}
       /\ last'.op \in {"removeIf", "expectIf"}
          => /\ Len(last'.visited) = Cardinality(m_testItems)
             /\ {last'.visited[i] : i \in 1 .. Len(last'.visited)} = Keys(m_testItems)]_vars

\* removeIf visited two entries, removed one and kept the other.
C10_Witness ==
    /\ last.op = "removeIf"
    /\ Len(last.visited) = 2
    /\ Cardinality(m_testItems) = 1

(***************************************************************************)
(* Properties of run() (checked under RunSpec).                            *)
(***************************************************************************)

\* C3: when run() returns, it returns true exactly when getFailedCount() is
\* 0, that is exactly when every Result of the log is successful.
C3_RunReturnsNoFailures ==
    (last.op = "run" /\ last.status = "returned")
    => /\ last.value <=> (getFailedCount(m_results) = 0)
       /\ last.value <=> (\A i \in 1 .. Len(m_results) : m_results[i].success)

\* A run with one passing and one failing Result.
C3_Witness ==
    /\ last.op = "run"
    /\ last.status = "returned"
    /\ ~last.value
    /\ getPassedCount(m_results) = 1
    /\ getFailedCount(m_results) = 1

\* C4: for an item whose callback invocation returns, success is the raw
\* result XOR expectedToFail; flagged and true fails with "Test unexpectedly
\* passed", flagged and false passes, unflagged and false fails with "Test
\* failed", and a passing Result has an empty error.
C4_ExpectedFailureInversion ==
    (last.op = "run" /\ last.status # "runtime_error")
    => \A i \in 1 .. Len(m_results) :
          LET r == m_results[i]
              testItem == find(m_testItems, r.name).second
              outcome == Invoke(m_testCallback, testItem.item)
          IN  /\ r.success => r.error = ""
              /\ outcome.kind = "returns" =>
                    /\ r.success = (outcome.value # testItem.expectedToFail)
                    /\ (testItem.expectedToFail /\ outcome.value)
                          => ~r.success /\ r.error = "Test unexpectedly passed"
                    /\ (testItem.expectedToFail /\ ~outcome.value) => r.success
                    /\ (~testItem.expectedToFail /\ ~outcome.value)
                          => ~r.success /\ r.error = "Test failed"

\* One run with a flagged item that unexpectedly passed and a flagged item
\* that failed as expected.
C4_Witness ==
    /\ last.op = "run"
    /\ \E i, j \in 1 .. Len(m_results) :
          /\ m_results[i].wasExpectedToFail
          /\ m_results[i].error = "Test unexpectedly passed"
          /\ m_results[j].wasExpectedToFail
          /\ m_results[j].success

\* C5: when the callback throws an exception carrying a message for an
\* item, the item's Result has success = false and that message as its
\* error, whether or not the item is flagged expectedToFail.
C5_FaultNeverInverted ==
    (last.op = "run" /\ last.status # "runtime_error")
    => \A i \in 1 .. Len(m_results) :
          LET r == m_results[i]
              testItem == find(m_testItems, r.name).second
              outcome == Invoke(m_testCallback, testItem.item)
          IN  outcome.kind = "exception"
                 => ~r.success /\ r.error = outcome.what

\* The callback threw on a flagged item.
C5_Witness ==
    /\ last.op = "run"
    /\ \E i \in 1 .. Len(m_results) :
          /\ m_results[i].wasExpectedToFail
          /\ m_results[i].error = "boom"
          /\ ~m_results[i].success

\* C6: after a run() with a callback set the log holds exactly one Result
\* per item of the store: the same names, no duplicates, nothing else.
C6_OneResultPerItem ==
    (last.op = "run" /\ last.status # "runtime_error")
    => /\ Len(m_results) = Cardinality(m_testItems)
       /\ {m_results[i].name : i \in 1 .. Len(m_results)} = Keys(m_testItems)

\* C7 as stated: the rate is 0 when the store is empty and otherwise
\* 100 * passed / (number of items in the store).  States right after a
\* run that a foreign exception cut short (C6) are left aside.
C7_RateOverStore ==
    LET rate == getPassRate(m_results)
    IN  last.status # "unknown_exception"
        => IF m_testItems = {} THEN rate.num = 0
           ELSE rate.num * Cardinality(m_testItems)
                   = 100 * getPassedCount(m_results) * rate.den

\* C7 amended: the rate is 0 when the Result Log is empty and otherwise
\* 100 * (successful Results) / (Results in the log), whatever the store
\* holds; right after a completed run that is 100 * (OK lines) / (items).
C7_RateOverResultLog ==
    LET rate == getPassRate(m_results)
        passed == Cardinality({i \in 1 .. Len(m_results) : m_results[i].success})
        ok == Cardinality({i \in 1 .. Len(last.events) : last.events[i].ev = "OK"})
    IN  /\ m_results = <<>> => rate.num = 0
        /\ m_results # <<>> => rate.num * Len(m_results) = 100 * passed * rate.den
        /\ (last.op = "run" /\ last.status = "returned" /\ m_testItems # {})
              => rate.num * Cardinality(m_testItems) = 100 * ok * rate.den

\* The store was emptied after a run: the rate is still the last run's.
C7_Witness ==
    /\ m_testItems = {}
    /\ Len(m_results) = 2
    /\ getPassRate(m_results) = [num |-> 100, den |-> 2]

\* C8: run() with no callback set throws the runtime_error to the caller;
\* the callback is invoked for no item, nothing is printed, and the store,
\* the callback slot and the Result Log stay exactly as they were.
C8_RunWithoutCallback ==
    [][(last'.op = "run" /\ m_testCallback = EmptyCallable)
       => /\ last'.status = "runtime_error"
          /\ last'.what = "Test callback not set"
          /\ last'.visited = <<>>
          /\ last'.events = <<>>
          /\ m_testItems' = m_testItems
          /\ m_results' = m_results
          /\ m_testCallback' = m_testCallback]_vars

\* run() threw with items in the store and an earlier run's Results in the
\* log (the callback was replaced by an empty callable in between).
C8_Witness ==
    /\ last.op = "run"
    /\ last.status = "runtime_error"
    /\ m_testItems # {}
    /\ Len(m_results) = 2

\* C9: clear() empties the store and the Result Log and leaves the callback
\* slot as it was; after it getPassedCount() and getFailedCount() are 0, and
\* a run() that follows with a callback set returns true with nothing passed.
C9_ClearThenRun ==
    /\ [][last'.op = "clear"
          => /\ m_testItems' = {}
             /\ m_results' = <<>>
             /\ m_testCallback' = m_testCallback]_vars
    /\ [](last.op = "clear"
          => getPassedCount(m_results) = 0 /\ getFailedCount(m_results) = 0)
    /\ [][(last.op = "clear" /\ last'.op = "run" /\ m_testCallback # EmptyCallable)
          => /\ last'.status = "returned"
             /\ last'.value
             /\ getPassedCount(m_results') = 0
             /\ getFailedCount(m_results') = 0]_vars

\* clear() has just discarded the two Results of a run, the callback set.
C9_Witness ==
    /\ last.op = "clear"
    /\ Len(last.visited) = 2
    /\ m_testCallback # EmptyCallable
    /\ m_testItems = {}
    /\ m_results = <<>>

(***************************************************************************)
(* Properties of the container overloads (checked under ContainerSpec).    *)
(***************************************************************************)

\* C11: adding a container or initializer list of k raw values under a
\* prefix inserts k new entries, each under its own name prefix_n, and
\* changes no existing entry; a container of TestItems inserts under the
\* items' own names (a generated Test_n for an unnamed item), whatever the
\* prefix.
C11_ContainerAdd ==
    [][/\ last'.op \in {"addContainer", "addInitializerList"}
          => LET k == Len(last'.events)
                 new == m_testItems' \ m_testItems
             IN  /\ Cardinality(m_testItems') = Cardinality(m_testItems) + k
                 /\ m_testItems \subseteq m_testItems'
                 /\ Cardinality(Keys(new)) = k
                 /\ \A e \in new :
                       /\ \E n \in 1 .. 2 * MaxItems : e.first = Format(last'.arg, n)
                       /\ ~contains(m_testItems, e.first)
       /\ last'.op = "addItemContainer"
          => LET given == {last'.events[i].name : i \in 1 .. Len(last'.events)}
                 new == m_testItems' \ m_testItems
             IN  /\ m_testItems \subseteq m_testItems'
                 /\ \A name \in given \ {""} : contains(m_testItems', name)
                 /\ \A e \in new :
                       \/ e.first \in given \ {""}
                       \/ /\ "" \in given
                          /\ \E n \in 1 .. 2 * MaxItems : e.first = Format("Test", n)]_vars

\* A container of two values was added under the prefix "num": the elements
\* went in under two distinct generated names.
C11_Witness ==
    /\ last.op = "addContainer"
    /\ last.arg = "num"
    /\ Len(last.events) = 2
    /\ Len(last.visited) = 2
    /\ last.visited[1] # last.visited[2]
    /\ contains(m_testItems, last.visited[1])
    /\ contains(m_testItems, last.visited[2])

(***************************************************************************)
(* Properties of the report (checked under ReportSpec).                    *)
(***************************************************************************)

\* C12 as stated: the slow-test listing holds exactly the Results whose
\* duration exceeds 1.5 times the mean duration total / count.
C12_SlowAboveExactMean ==
    (last.op = "run" /\ last.status = "returned" /\ m_results # <<>>)
    => \A i \in 1 .. Len(m_results) :
          (\E j \in 1 .. Len(slowTests(m_results)) :
              slowTests(m_results)[j] = m_results[i])
          <=> 2 * Len(m_results) * m_results[i].duration
                 > 3 * totalTestTime(m_results)

\* C12 amended: the listing holds, in log order, exactly the Results whose
\* duration exceeds floor(1.5 * avg), avg being the total divided by the
\* count and rounded down to whole milliseconds.
C12_SlowAboveTruncatedMean ==
    (last.op = "run" /\ last.status = "returned" /\ m_results # <<>>)
    => LET n == Len(m_results)
           total == totalTestTime(m_results)
           avg == CHOOSE a \in 0 .. total : a * n <= total /\ total < (a + 1) * n
           threshold == CHOOSE t \in 0 .. 2 * total :
                           2 * t <= 3 * avg /\ 3 * avg < 2 * (t + 1)
           listed == slowTests(m_results)
           kept == {i \in 1 .. n : m_results[i].duration > threshold}
       IN  /\ Len(listed) = Cardinality(kept)
           /\ \A j \in 1 .. Len(listed) :
                 \E i \in kept :
                    /\ listed[j] = m_results[i]
                    /\ Cardinality({h \in kept : h < i}) = j - 1

\* A Result is listed although its duration is not above 1.5 times the
\* exact mean (durations 1 and 2: mean 1.5, avg 1, threshold 1).
C12_Witness ==
    /\ last.op = "run"
    /\ last.status = "returned"
    /\ m_results # <<>>
    /\ \E j \in 1 .. Len(slowTests(m_results)) :
          2 * Len(m_results) * slowTests(m_results)[j].duration
             <= 3 * totalTestTime(m_results)

\* C13 as stated: on ties the slowest Result is the first of the Results
\* with the maximum duration and the fastest the first with the minimum.
C13_FirstOnTies ==
    (last.op = "run" /\ last.status = "returned" /\ m_results # <<>>)
    => LET n == Len(m_results)
           maxima == {i \in 1 .. n :
                        \A j \in 1 .. n : m_results[j].duration <= m_results[i].duration}
           minima == {i \in 1 .. n :
                        \A j \in 1 .. n : m_results[i].duration <= m_results[j].duration}
       IN  /\ slowestTest(m_results) =
                 m_results[CHOOSE i \in maxima : \A j \in maxima : i <= j]
           /\ fastestTest(m_results) =
                 m_results[CHOOSE i \in minima : \A j \in minima : i <= j]

\* C13 amended: on ties the slowest Result is the last of the Results with
\* the maximum duration; the fastest is the first with the minimum.
C13_LastMaxFirstMin ==
    (last.op = "run" /\ last.status = "returned" /\ m_results # <<>>)
    => LET n == Len(m_results)
           maxima == {i \in 1 .. n :
                        \A j \in 1 .. n : m_results[j].duration <= m_results[i].duration}
           minima == {i \in 1 .. n :
                        \A j \in 1 .. n : m_results[i].duration <= m_results[j].duration}
       IN  /\ slowestTest(m_results) =
                 m_results[CHOOSE i \in maxima : \A j \in maxima : j <= i]
           /\ fastestTest(m_results) =
                 m_results[CHOOSE i \in minima : \A j \in minima : i <= j]

\* Two Results with the same duration: the second is reported as slowest,
\* the first as fastest.
C13_Witness ==
    /\ last.op = "run"
    /\ last.status = "returned"
    /\ Len(m_results) = 2
    /\ m_results[1].duration = m_results[2].duration
    /\ slowestTest(m_results) = m_results[2]
    /\ fastestTest(m_results) = m_results[1]

(***************************************************************************)
(* Order of the lines of one run (checked under RunSpec).                  *)
(***************************************************************************)

\* C14: within one run() every item of the store gets, in processing order,
\* its RUN line, one invocation of the predicate and one outcome line, all
\* before the next item starts; the log lists the Results in that order;
\* the report comes after the last outcome line and ends the run.
C14_EventOrdering ==
    (last.op = "run" /\ last.status # "runtime_error")
    => LET n == Cardinality(m_testItems)
           events == last.events
       IN  /\ Len(m_results) = n
           /\ {m_results[i].name : i \in 1 .. n} = Keys(m_testItems)
           /\ Len(events) = 3 * n + 2
           /\ events[1] = Event("BANNER", "")
           /\ \A i \in 1 .. n :
                 /\ events[3 * i - 1] = Event("RUN", m_results[i].name)
                 /\ events[3 * i] = Event("CALL", m_results[i].name)
                 /\ events[3 * i + 1] =
                       Event(IF m_results[i].success THEN "OK" ELSE "FAILED",
                             m_results[i].name)
           /\ events[3 * n + 2] = Event("REPORT", "")

(***************************************************************************)
(* Names of the entries (checked under ContainerSpec).                     *)
(***************************************************************************)

\* C15: in every state reached by the add overloads, remove, removeIf,
\* expect, expectIf and clear, each entry's name field equals its key and
\* is not empty, auto-generated names included.
C15_NameIsKey ==
    \A entry \in m_testItems :
       /\ entry.first = entry.second.name
       /\ entry.first # ""

\* An add without a name has just stored an entry under the generated
\* name, and the entry carries that name.
C15_Witness ==
    /\ last.op \in {"add", "addItem"}
    /\ last.arg = ""
    /\ last.visited # <<>>
    /\ \E entry \in m_testItems :
          /\ entry.first = last.visited[Len(last.visited)]
          /\ entry.second.name = entry.first

(***************************************************************************)
(* What changes the Result Log (checked under RunSpec).                    *)
(***************************************************************************)

\* C16: add, remove, removeIf, expect, expectIf and forEach leave the
\* Result Log as it is, so the passed count, the failed count and the pass
\* rate stay those of the last run; and right after clear() or a run() that
\* had a callback the log has as many Results as the store has items.
C16_ResultLogFrame ==
    /\ [][last'.op \notin {"run", "clear"}
          => /\ m_results' = m_results
             /\ getPassedCount(m_results') = getPassedCount(m_results)
             /\ getFailedCount(m_results') = getFailedCount(m_results)
             /\ getPassRate(m_results') = getPassRate(m_results)]_vars
    /\ []((\/ last.op = "clear"
           \/ last.op = "run" /\ last.status # "runtime_error")
          => Len(m_results) = Cardinality(m_testItems))

(***************************************************************************)
(* Skipped and disabled tests (checked under RegistrySpec).                *)
(***************************************************************************)

\* C17: in runAllTests the test function of a test registered with status
\* Skip is never invoked; the test is reported as SKIPPED and counted in
\* stats.skipped, and not in stats.total, stats.passed or stats.failed;
\* the test function of a Disabled test is never invoked either.
C17_SkipNeverRuns ==
    last.op = "runAllTests"
    => LET n == Len(m_tests)
           skip == {i \in 1 .. n : m_tests[i].status = "Skip"}
           disabledOnes == {i \in 1 .. n : m_tests[i].status = "Disabled"}
           ran == {i \in 1 .. n :
                     /\ m_tests[i].status = "Enabled"
                     /\ shouldRun(fullName(m_tests[i]), m_disabledTests,
                                  m_filterPattern)}
           invoked == {last.visited[j] : j \in 1 .. Len(last.visited)}
       IN  /\ invoked \cap (skip \cup disabledOnes) = {}
           /\ \A i \in skip :
                 \E j \in 1 .. Len(last.events) :
                    last.events[j] = Event("SKIPPED", fullName(m_tests[i]))
           /\ stats.skipped = Cardinality(skip)
           /\ stats.total = Cardinality(ran)
           /\ stats.passed + stats.failed = Cardinality(ran)

====
